---- MODULE Spec2Model ----
(***************************************************************************)
(* The devnomads, hetzner and scaleway providers of dns-lexicon, each      *)
(* driving the vendor's zone over HTTP.                                    *)
(*                                                                         *)
(* Text is a sequence of tokens: a record name is its labels and dots      *)
(* (<<"www", ".", "D", ".">> is "www.example.com." for the domain token    *)
(* "D"), a content is its characters, a synthesized identifier is          *)
(* type "/" name "=" content.  Python's None is NoneS for a type and       *)
(* NoneT for a name, a content or an identifier.                           *)
(***************************************************************************)
EXTENDS Integers, Sequences, FiniteSets, TLC

VARIABLES provider, zone, zone_data, domain_id, last, repeated

vars == <<provider, zone, zone_data, domain_id, last, repeated>>

\* ------------------------------------------------------------------ bounds

\* the most values a zone holds, over all its record sets
MaxRecords == 3

\* the latest request of one call that the server may answer with a non-2xx
MaxFailAt == 4

\* the longest content the codecs are applied to
MaxText == 3

\* ------------------------------------------------------------------ text

NoneS == "None"

NoneT == <<"None">>

QUOTE == "\""

SPACE == " "

\* the value v, named in F
With(v, F(_)) == F(v)

Last(s) == s[Len(s)]

Front(s) == SubSeq(s, 1, Len(s) - 1)

RECURSIVE lstrip(_, _)
\* str.lstrip(ch)
lstrip(s, ch) ==
  IF s # <<>> /\ Head(s) = ch THEN lstrip(Tail(s), ch) ELSE s

RECURSIVE rstrip(_, _)
\* str.rstrip(ch)
rstrip(s, ch) ==
  IF s # <<>> /\ Last(s) = ch THEN rstrip(Front(s), ch) ELSE s

\* str.strip(ch)
strip(s, ch) == rstrip(lstrip(s, ch), ch)

IsPrefix(p, s) == Len(p) <= Len(s) /\ SubSeq(s, 1, Len(p)) = p

RECURSIVE replace(_, _, _)
\* str.replace(old, new): every non-overlapping occurrence, left to right
replace(s, old, new) ==
  IF s = <<>> THEN <<>>
  ELSE IF IsPrefix(old, s)
       THEN new \o replace(SubSeq(s, Len(old) + 1, Len(s)), old, new)
       ELSE <<Head(s)>> \o replace(Tail(s), old, new)

RECURSIVE splitOn(_, _, _)
\* str.split(sep) for a one-token separator: the parts, empty ones included;
\* cur is the part being read
splitOn(s, sep, cur) ==
  IF s = <<>> THEN <<cur>>
  ELSE IF Head(s) = sep THEN <<cur>> \o splitOn(Tail(s), sep, <<>>)
       ELSE splitOn(Tail(s), sep, Append(cur, Head(s)))

RECURSIVE splitWs(_, _)
\* str.split() without a separator: the runs between whitespace, never empty
splitWs(s, cur) ==
  IF s = <<>> THEN (IF cur = <<>> THEN <<>> ELSE <<cur>>)
  ELSE IF Head(s) = SPACE
       THEN (IF cur = <<>> THEN <<>> ELSE <<cur>>) \o splitWs(Tail(s), <<>>)
       ELSE splitWs(Tail(s), Append(cur, Head(s)))

RECURSIVE join(_, _)
\* sep.join(parts)
join(parts, sep) ==
  IF parts = <<>> THEN <<>>
  ELSE IF Len(parts) = 1 THEN parts[1]
       ELSE parts[1] \o sep \o join(Tail(parts), sep)

RECURSIVE SetToSeq(_)
\* the members of a finite set, one after the other
SetToSeq(S) ==
  IF S = {} THEN <<>>
  ELSE LET x == CHOOSE y \in S : TRUE IN <<x>> \o SetToSeq(S \ {x})

RECURSIVE Flatten(_)
\* the concatenation of a sequence of sequences
Flatten(ss) == IF ss = <<>> THEN <<>> ELSE Head(ss) \o Flatten(Tail(ss))

Range(s) == {s[i] : i \in 1..Len(s)}

\* ------------------------------------------------------------------ names

\* the zone's domain ("example.com") as one token
ZONE_DOMAIN == "D"

DOT == "."

\* str.endswith(self.domain)
EndsWithDomain(n) == n # <<>> /\ Last(n) = ZONE_DOMAIN

\* full_name: the domain appended to a relative name, one trailing dot
full_name(n) ==
  LET s == rstrip(n, DOT)
      t == IF EndsWithDomain(s) THEN s ELSE s \o <<DOT, ZONE_DOMAIN>>
  IN t \o <<DOT>>

\* the name with a trailing dot, as a PowerDNS zone holds it
fqdn_name(n) == full_name(n)

\* relative_name: the zone apex stripped
relative_name(n) ==
  LET s == rstrip(n, DOT)
  IN IF EndsWithDomain(s) THEN rstrip(Front(s), DOT) ELSE s

\* hetzner: the record set name of a url
to_rrset_name(n) ==
  IF EndsWithDomain(rstrip(n, DOT)) THEN relative_name(n) ELSE n

\* ------------------------------------------------------------------ contents

BACKSLASH == "\\"

\* devnomads: the transport form of a content (CNAME, a name, is not among
\* the types of this model)
clean_content(rtype, content) ==
  IF rtype \in {"TXT", "LOC"}
  THEN LET c1 == IF Head(content) # QUOTE THEN <<QUOTE>> \o content ELSE content
       IN IF Last(c1) # QUOTE THEN Append(c1, QUOTE) ELSE c1
  ELSE content

\* devnomads: the content as list_records shows it
unclean_content(rtype, content) ==
  IF rtype \in {"TXT", "LOC"} THEN strip(content, QUOTE) ELSE content

\* devnomads: the identifier "<type>/<name>=<content>"
make_identifier(rtype, name, content) ==
  <<rtype, "/">> \o name \o <<"=">> \o content

\* devnomads: parts[0] of split("/") is the type, parts[1] split on "=" gives
\* the name and, joined again, the content; ok is FALSE where the code
\* indexes past the parts (IndexError)
parse_identifier(identifier) ==
  With(splitOn(identifier, "/", <<>>), LAMBDA parts :
    With(IF Len(parts) >= 2 THEN splitOn(parts[2], "=", <<>>) ELSE <<>>,
         LAMBDA sub :
           [ok |-> Len(parts) >= 2,
            rtype |-> IF Len(parts[1]) = 1 THEN parts[1][1] ELSE "",
            name |-> IF sub # <<>> THEN sub[1] ELSE <<>>,
            content |-> IF sub # <<>> THEN join(Tail(sub), <<"=">>) ELSE <<>>]))

RECURSIVE quoteParts(_)
\* "".join(map(lambda part: f'"{part}"', parts))
quoteParts(parts) ==
  IF parts = <<>> THEN <<>>
  ELSE <<QUOTE>> \o Head(parts) \o <<QUOTE>> \o quoteParts(Tail(parts))

\* hetzner: the value sent for a content
record_from(rtype, content) ==
  IF rtype = "TXT" THEN quoteParts(splitWs(content, <<>>)) ELSE content

\* a decoding that leaves the quotes of a TXT value in place: create_record
\* then does not find the value it has made
hz_content_raw(rtype, value) == value

\* hetzner: the content shown for a value
hz_content(rtype, value) ==
  IF rtype # "TXT" THEN value
  ELSE rstrip(lstrip(replace(value, <<QUOTE, QUOTE>>, <<SPACE>>), QUOTE), QUOTE)

\* scaleway: the content shown for the data of a record
decode_content(rtype, data) ==
  IF data = <<>> \/ rtype # "TXT" THEN data
  ELSE IF Head(data) = QUOTE /\ Last(data) = QUOTE
       THEN replace(replace(replace(SubSeq(data, 2, Len(data) - 1),
                                    <<QUOTE, SPACE, QUOTE>>, <<>>),
                            <<BACKSLASH, QUOTE>>, <<QUOTE>>),
                    <<BACKSLASH, BACKSLASH>>, <<BACKSLASH>>)
       ELSE data

\* scaleway's server: the data it holds for the content of a TXT record it is
\* sent, quoted and escaped (what decode_content undoes)
sw_stored(rtype, content) ==
  IF rtype # "TXT" THEN content
  ELSE <<QUOTE>>
       \o replace(replace(content, <<BACKSLASH>>, <<BACKSLASH, BACKSLASH>>),
                  <<QUOTE>>, <<BACKSLASH, QUOTE>>)
       \o <<QUOTE>>

\* ------------------------------------------------------------------ the zone

\* A zone is a set of record sets [id, name, type, ttl, records]: records is the
\* sequence of the values as the server holds them.  A scaleway zone holds
\* flat records: each is a set of one value under an id of its own.
\* ttl 0 is no ttl (hetzner's null: the zone's default applies).

NoTtl == 0

\* devnomads: "ttl": self._get_lexicon_option("ttl") or 600
DN_DEFAULT_TTL == 600

\* scaleway: self.default_ttl
SW_DEFAULT_TTL == 3600

\* the number of values a zone holds
RECURSIVE Size(_)
Size(z) ==
  IF z = {} THEN 0
  ELSE LET r == CHOOSE x \in z : TRUE IN Len(r.records) + Size(z \ {r})

At(z, name, rtype) == {r \in z : r.name = name /\ r.type = rtype}

Without(z, name, rtype) == z \ At(z, name, rtype)

\* A request: method and what it asks for.
Req(method, action, name, rtype, ttl, records, ids) ==
  [method |-> method, action |-> action, name |-> name, type |-> rtype,
   ttl |-> ttl, records |-> records, ids |-> ids]

GetReq == Req("GET", "get", NoneT, NoneS, NoTtl, <<>>, <<>>)

IsMutation(req) == req.method \in {"POST", "PATCH", "DELETE"}

Answer(ok, z) == [ok |-> ok, zone |-> z]

\* The PowerDNS API behind devnomads, PATCH /zones/<domain>: REPLACE puts the
\* record set in place of the one of that name and type (none, when it is sent
\* without records), DELETE removes it.  A record set that holds a value twice
\* is rejected.
dn_serve(z, req) ==
  IF req.action = "get" THEN Answer(TRUE, z)
  ELSE IF \/ req.type = NoneS
          \/ NoneT \in Range(req.records)
          \/ Cardinality(Range(req.records)) # Len(req.records)
  THEN Answer(FALSE, z)
  ELSE IF req.action = "DELETE" \/ req.records = <<>>
       THEN Answer(TRUE, Without(z, req.name, req.type))
       ELSE Answer(TRUE, Without(z, req.name, req.type)
                         \cup {[id |-> <<>>, name |-> req.name, type |-> req.type,
                                ttl |-> req.ttl, records |-> req.records]})

\* hetzner: the id of a record set is "<name>/<type>"
hz_id(name, rtype) == name \o <<"/", rtype>>

\* The Hetzner API: add_records appends to the record set and creates it when
\* there is none; remove_records takes values out and drops the record set
\* once empty; set_records overwrites the values; DELETE drops the record set.
\* A request for a record set that does not exist is answered 404.  Where the
\* answer is not known (a value added twice, a ttl other than the record
\* set's, a value to remove that is not there) the server either rejects the
\* request or, lenient, does what is left of it.
hz_serve(z, req, lenient) ==
  LET cur == At(z, req.name, req.type)
      r == CHOOSE x \in cur : TRUE
      rest == Without(z, req.name, req.type)
  IN IF req.action = "get" THEN Answer(TRUE, z)
     ELSE IF req.type = NoneS \/ NoneT \in Range(req.records) THEN Answer(FALSE, z)
     ELSE IF req.action = "add_records"
     THEN IF cur = {}
          THEN Answer(TRUE, z \cup {[id |-> hz_id(req.name, req.type),
                                     name |-> req.name, type |-> req.type,
                                     ttl |-> req.ttl, records |-> req.records]})
          ELSE LET odd == (\E i \in 1..Len(req.records) :
                              req.records[i] \in Range(r.records))
                          \/ (req.ttl # NoTtl /\ req.ttl # r.ttl)
                   new == SelectSeq(req.records, LAMBDA v : v \notin Range(r.records))
               IN IF odd /\ ~lenient THEN Answer(FALSE, z)
                  ELSE Answer(TRUE, rest \cup
                         {[r EXCEPT !.records = @ \o new,
                                    !.ttl = IF req.ttl # NoTtl THEN req.ttl ELSE @]})
     ELSE IF cur = {} THEN Answer(FALSE, z)
     ELSE IF req.action = "remove_records"
     THEN LET odd == \E i \in 1..Len(req.records) :
                         req.records[i] \notin Range(r.records)
              kept == SelectSeq(r.records, LAMBDA v : v \notin Range(req.records))
          IN IF odd /\ ~lenient THEN Answer(FALSE, z)
             ELSE IF kept = <<>> THEN Answer(TRUE, rest)
             ELSE Answer(TRUE, rest \cup {[r EXCEPT !.records = kept]})
     ELSE IF req.action = "set_records"
     THEN Answer(TRUE, rest \cup {[r EXCEPT !.records = req.records]})
     ELSE Answer(TRUE, rest)

\* scaleway: the id of a record.  The server gives every record an id of its
\* own, which tells nothing to the client; here it is spelled from the record.
sw_id(name, rtype, data) == <<"id", rtype>> \o name \o <<":">> \o data

\* scaleway: the record the server holds for the one a request carries
sw_record(req) ==
  With(relative_name(req.name), LAMBDA name :
    With(sw_stored(req.type, req.records[1]), LAMBDA data :
      [id |-> sw_id(name, req.type, data), name |-> name, type |-> req.type,
       ttl |-> req.ttl, records |-> <<data>>]))

\* The Scaleway API, PATCH /dns-zones/<zone>/records: add creates a record
\* under a new id, delete removes the record of an id, set puts the record sent
\* in place of the record of an id.  The record is held under its name relative
\* to the zone.  Where the answer for an id that no record has is not known, the
\* server either rejects the request or, lenient, skips that id.
sw_serve(z, req, lenient) ==
  IF req.action = "get" THEN Answer(TRUE, z)
  ELSE IF req.action = "delete"
  THEN IF (\E i \in 1..Len(req.ids) : \A r \in z : r.id # req.ids[i]) /\ ~lenient
       THEN Answer(FALSE, z)
       ELSE Answer(TRUE, {r \in z : r.id \notin Range(req.ids)})
  ELSE IF req.type = NoneS \/ req.name = NoneT \/ NoneT \in Range(req.records)
  THEN Answer(FALSE, z)
  ELSE With(sw_record(req), LAMBDA made :
         IF req.action = "add"
         THEN Answer(TRUE, {r \in z : r.id # made.id} \cup {made})
         ELSE IF \A r \in z : r.id # req.ids[1] THEN Answer(lenient, z)
         ELSE Answer(TRUE, {r \in z : r.id \notin {req.ids[1], made.id}}
                           \cup {made}))

\* ------------------------------------------------------------------ a call

\* The context of one call: the server's zone, the instance's zone_data, the
\* requests sent so far, and st: "run" while the call runs, then what it
\* returned ("True", "False", "list") or the exception that ended it.  failAt
\* is the request the server answers with a non-2xx (0: none); out is the value
\* of the last list_records.

NoCache == [set |-> FALSE, rrsets |-> {}]

Cached(z) == [set |-> TRUE, rrsets |-> z]

Return(c, v) == [c EXCEPT !.st = v]

Running(c) == c.st = "run"

\* a request whose failure is swallowed: the call goes on as if it were answered
Send_ignoring(c, req, a) ==
  IF Len(c.reqs) + 1 = c.failAt \/ ~a.ok
  THEN [c EXCEPT !.reqs = Append(@, req)]
  ELSE [c EXCEPT !.reqs = Append(@, req), !.zone = a.zone]

\* _request: one HTTP request, answered a by the server; raise_for_status()
\* raises on a non-2xx answer
Send(c, req, a) ==
  IF Len(c.reqs) + 1 = c.failAt \/ ~a.ok
  THEN [c EXCEPT !.reqs = Append(@, req), !.st = "HTTPError"]
  ELSE [c EXCEPT !.reqs = Append(@, req), !.zone = a.zone]

\* the statements F after a step that left the call in c: none once it raised
\* or returned
Then(c, F(_)) == IF Running(c) THEN F(c) ELSE c

\* the statements F after a call of another operation of the instance, which
\* returned True
After(c, F(_)) == IF c.st = "True" THEN F(Return(c, "run")) ELSE c

\* Python's truth of an optional text: neither None nor empty
Truthy(x) == x # NoneT /\ x # <<>>

TruthyS(x) == x # NoneS /\ x # ""

\* ------------------------------------------------------------------ devnomads

dn_request(c, req) == Send(c, req, dn_serve(c.zone, req))

\* zone_data(): the zone, fetched when the instance holds none
dn_zone_data(c) ==
  IF c.zd.set THEN c
  ELSE Then(dn_request(c, GetReq),
            LAMBDA c1 : [c1 EXCEPT !.zd = Cached(c1.zone)])

\* the records list_records builds from one record set
dn_records_of(r, rtype, content) ==
  With(SelectSeq(r.records, LAMBDA v :
                   content = NoneT \/ v = clean_content(rtype, content)),
       LAMBDA vs :
         [i \in 1..Len(vs) |->
            [type |-> r.type, name |-> full_name(r.name), ttl |-> r.ttl,
             content |-> unclean_content(r.type, vs[i]),
             id |-> make_identifier(r.type, r.name, vs[i])]])

\* the records list_records builds from the record sets it holds
dn_records(rrsets, rtype, name, content) ==
  With(SetToSeq({r \in rrsets :
                  /\ (name = NoneT \/ fqdn_name(r.name) = fqdn_name(name))
                  /\ (rtype = NoneS \/ r.type = rtype)}),
       LAMBDA sets :
         Flatten([i \in 1..Len(sets) |-> dn_records_of(sets[i], rtype, content)]))

dn_list_records(c, rtype, name, content) ==
  Then(dn_zone_data(c),
       LAMBDA c1 : [c1 EXCEPT !.out = dn_records(c1.zd.rrsets, rtype, name, content)])

\* a create_record that sends the new value alone
dn_new_records_only(found, newcontent) == <<newcontent>>

\* updated_data["records"]: the new value, then the values of the record set
\* found that are not the new value
dn_new_records(found, newcontent) ==
  <<newcontent>> \o
    (IF found # {}
     THEN SelectSeq((CHOOSE r \in found : TRUE).records, LAMBDA v : v # newcontent)
     ELSE <<>>)

\* updated_data: the ttl option or 600, then the ttl of the record set found
dn_updated_data(found, ttlopt, rtype, rname, newcontent) ==
  Req("PATCH", "REPLACE", rname, rtype,
      IF found # {} THEN (CHOOSE r \in found : TRUE).ttl
      ELSE IF ttlopt # NoTtl THEN ttlopt ELSE DN_DEFAULT_TTL,
      dn_new_records(found, newcontent), <<>>)

\* a mutating call that returns True and keeps the snapshot it holds
dn_done_cached(c2) == Return(c2, "True")

\* self._zone_data = None; return True
dn_done(c2) == [c2 EXCEPT !.zd = NoCache, !.st = "True"]

dn_create_record(c, ttlopt, rtype, name, content) ==
  IF name = NoneT THEN Return(c, "AttributeError")
  ELSE IF rtype \in {"TXT", "LOC"} /\ content = NoneT THEN Return(c, "TypeError")
  ELSE Then(dn_zone_data(c), LAMBDA c1 :
         Then(dn_request(c1, dn_updated_data(
                               At(c1.zd.rrsets, fqdn_name(name), rtype),
                               ttlopt, rtype, fqdn_name(name),
                               clean_content(rtype, content))),
              dn_done))

\* a delete_record that keeps no value of the record set
dn_kept_none(rrset, content) == <<>>

\* a delete_record that sends the record set as it found it
dn_kept_all(rrset, content) == rrset.records

\* update_data["records"]: none without a content, else the values of the
\* record set that are not the content
dn_kept(rrset, content) ==
  IF content = NoneT THEN <<>>
  ELSE SelectSeq(rrset.records, LAMBDA v : clean_content(rrset.type, content) # v)

\* the PATCH of delete_record for the record set found.  update_data is the
\* record set of zone_data itself: it is changed in place before the request
dn_patch(c1, rrset, kept, content) ==
  Then(dn_request([c1 EXCEPT !.zd = Cached((c1.zd.rrsets \ {rrset})
                                     \cup {[rrset EXCEPT !.records = kept]})],
                  Req("PATCH", IF content = NoneT THEN "DELETE" ELSE "REPLACE",
                      rrset.name, rrset.type, rrset.ttl, kept, <<>>)),
       dn_done)

\* delete_record once the identifier is parsed
dn_delete(c, rtype, name, content) ==
  IF rtype = NoneS \/ name = NoneT THEN Return(c, "Exception")
  ELSE Then(dn_zone_data(c), LAMBDA c1 :
         With({r \in c1.zd.rrsets :
                 r.type = rtype /\ fqdn_name(r.name) = fqdn_name(name)},
              LAMBDA found :
                IF found = {} THEN Return(c1, "UnboundLocalError")
                ELSE With(CHOOSE r \in found : TRUE, LAMBDA rrset :
                       dn_patch(c1, rrset, dn_kept(rrset, content), content))))

dn_delete_record(c, identifier, rtype0, name0, content0) ==
  IF identifier = NoneT THEN dn_delete(c, rtype0, name0, content0)
  ELSE With(parse_identifier(identifier), LAMBDA p :
         IF ~p.ok THEN Return(c, "IndexError")
         ELSE dn_delete(c, p.rtype, p.name, p.content))

\* authenticate: zone_data(), then domain_id is the domain
dn_authenticate(c) ==
  Then(dn_zone_data(c),
       LAMBDA c1 : [c1 EXCEPT !.did = <<ZONE_DOMAIN>>, !.st = "None"])

dn_update_record(c, ttlopt, identifier, rtype, name, content) ==
  After(dn_delete_record(c, identifier, NoneS, NoneT, NoneT),
        LAMBDA d : dn_create_record(d, ttlopt, rtype, name, content))

\* ------------------------------------------------------------------ hetzner

hz_request(c, req) == Send(c, req, hz_serve(c.zone, req, c.lenient))

\* int(ttl) if (ttl := self._get_lexicon_option("ttl")) else None
get_ttl(ttlopt) == IF ttlopt # 0 THEN ttlopt ELSE NoTtl

\* records that carry the name of their record set as id
rrset_to_records_by_name(r) ==
  [i \in 1..Len(r.records) |->
     [id |-> r.name, name |-> full_name(r.name),
      content |-> hz_content(r.type, r.records[i]),
      type |-> r.type, ttl |-> r.ttl]]

rrset_to_records(r) ==
  [i \in 1..Len(r.records) |->
     [id |-> r.id, name |-> full_name(r.name),
      content |-> hz_content(r.type, r.records[i]),
      type |-> r.type, ttl |-> r.ttl]]

\* the records of the zone
hz_all_records(sets) ==
  Flatten([i \in 1..Len(sets) |-> rrset_to_records(sets[i])])

hz_records(z, rtype, name0, content) ==
  With(IF Truthy(name0) THEN full_name(name0) ELSE NoneT, LAMBDA name :
    SelectSeq(hz_all_records(SetToSeq(z)),
              LAMBDA rec : /\ (rtype = NoneS \/ rec.type = rtype)
                           /\ (name = NoneT \/ rec.name = name)
                           /\ (content = NoneT \/ rec.content = content)))

hz_list_records(c, rtype, name, content) ==
  Then(hz_request(c, GetReq),
       LAMBDA c1 : [c1 EXCEPT !.out = hz_records(c1.zone, rtype, name, content)])

hz_create_record(c, ttlopt, rtype, name, content) ==
  Then(hz_list_records(c, rtype, name, content), LAMBDA l :
    IF Len(l.out) > 0 THEN Return(l, "True")
    ELSE Then(hz_request(l, Req("POST", "add_records", to_rrset_name(name), rtype,
                                get_ttl(ttlopt), <<record_from(rtype, content)>>,
                                <<>>)),
              LAMBDA c2 : Return(c2, "True")))

\* next(iter([...])): the first record of that id, StopIteration when none
hz_find_record(c, identifier, content) ==
  Then(hz_list_records(c, NoneS, NoneT, content), LAMBDA l :
    With(SelectSeq(l.out, LAMBDA rec : rec.id = identifier), LAMBDA hits :
      IF hits = <<>> THEN Return(l, "StopIteration")
      ELSE [l EXCEPT !.out = <<hits[1]>>]))

\* delete_record once the record set is known: the whole of it, or one value
hz_delete(c, rtype, name, content) ==
  Then(hz_request(c, IF content = NoneT
                     THEN Req("DELETE", "delete_rrset", to_rrset_name(name), rtype,
                              NoTtl, <<>>, <<>>)
                     ELSE Req("POST", "remove_records", to_rrset_name(name), rtype,
                              NoTtl, <<record_from(rtype, content)>>, <<>>)),
       LAMBDA c2 : Return(c2, "True"))

hz_delete_record(c, identifier, rtype0, name0, content) ==
  IF identifier = NoneT /\ (rtype0 = NoneS \/ name0 = NoneT)
  THEN Return(c, "LexiconError")
  ELSE IF Truthy(identifier)
  THEN Then(hz_find_record(c, identifier, NoneT), LAMBDA f :
         hz_delete(f, f.out[1].type, f.out[1].name, content))
  ELSE hz_delete(c, rtype0, name0, content)

hz_move_record(c, ttlopt, identifier, content, to_rtype, to_name) ==
  IF to_rtype = NoneS /\ to_name = NoneT THEN Return(c, "LexiconError")
  ELSE Then(hz_find_record(c, identifier, content), LAMBDA f :
         After(hz_create_record(f, ttlopt,
                 IF TruthyS(to_rtype) THEN to_rtype ELSE f.out[1].type,
                 IF Truthy(to_name) THEN to_name ELSE f.out[1].name,
                 content),
               LAMBDA made :
                 hz_delete_record(made, identifier, NoneS, NoneT, content)))

\* an update that adds the new content to the record set
hz_change_content_add(c, rtype, name, new_content) ==
  hz_request(c, Req("POST", "add_records", to_rrset_name(name), rtype, NoTtl,
                    <<record_from(rtype, new_content)>>, <<>>))

hz_change_content(c, rtype, name, new_content) ==
  hz_request(c, Req("POST", "set_records", to_rrset_name(name), rtype, NoTtl,
                    <<record_from(rtype, new_content)>>, <<>>))

\* except requests.HTTPError: AuthenticationError on 401, LexiconError on 404
\* ("There is no zone for ...") and on every other status
hz_zone_error(c) ==
  IF c.st # "HTTPError" THEN c
  ELSE Return(c, CASE c.status = 401 -> "AuthenticationError"
                   [] c.status = 404 -> "LexiconError: no zone"
                   [] OTHER -> "LexiconError")

\* _fetch_zone: GET /zones/<domain>
hz_fetch_zone(c) == hz_zone_error(hz_request(c, GetReq))

\* authenticate: domain_id is the id of the zone fetched
hz_authenticate(c) ==
  Then(hz_fetch_zone(c),
       LAMBDA c1 : [c1 EXCEPT !.did = <<"zone", ZONE_DOMAIN>>, !.st = "None"])

hz_update_record(c, ttlopt, identifier, rtype, name, content) ==
  IF identifier = NoneT /\ (rtype = NoneS \/ name = NoneT)
  THEN Return(c, "LexiconError")
  ELSE IF identifier # NoneT /\ content # NoneT
  THEN hz_move_record(c, ttlopt, identifier, content, rtype, name)
  ELSE IF rtype # NoneS /\ name # NoneT /\ content # NoneT
  THEN Then(hz_change_content(c, rtype, name, content),
            LAMBDA s : Return(s, "True"))
  ELSE Return(c, "False")

\* ------------------------------------------------------------------ scaleway

sw_request(c, req) == Send(c, req, sw_serve(c.zone, req, c.lenient))

sw_records(z) ==
  With(SetToSeq(z), LAMBDA rs :
    [i \in 1..Len(rs) |->
       [id |-> rs[i].id, type |-> rs[i].type, name |-> full_name(rs[i].name),
        ttl |-> rs[i].ttl,
        content |-> decode_content(rs[i].type, rs[i].records[1])]])

filter_records(records, rtype, name, content) ==
  IF ~TruthyS(rtype) /\ ~Truthy(name) /\ ~Truthy(content) THEN records
  ELSE SelectSeq(records,
         LAMBDA rec : /\ ~(TruthyS(rtype) /\ rec.type # rtype)
                      /\ ~(Truthy(name) /\ rec.name # full_name(name))
                      /\ ~(Truthy(content) /\ rec.content # content))

sw_list_records(c, rtype, name, content) ==
  Then(sw_request(c, GetReq), LAMBDA c1 :
    [c1 EXCEPT !.out = filter_records(sw_records(c1.zone), rtype, name, content)])

sw_ttl(ttlopt) == IF ttlopt # 0 THEN ttlopt ELSE SW_DEFAULT_TTL

sw_create_record(c, ttlopt, rtype, name, content) ==
  Then(sw_list_records(c, rtype, name, content), LAMBDA l :
    IF l.out # <<>> THEN Return(l, "True")
    ELSE Then(sw_request(l, Req("PATCH", "add", name, rtype, sw_ttl(ttlopt),
                                <<content>>, <<>>)),
              LAMBDA c2 : Return(c2, "True")))

\* a delete_record that deletes the first record found alone
sw_changes_first(identifier, records) ==
  IF Truthy(identifier) THEN <<identifier>> ELSE <<records[1].id>>

\* changes: the id to delete, or the ids of the records found
sw_changes(identifier, records) ==
  IF Truthy(identifier) THEN <<identifier>>
  ELSE [i \in 1..Len(records) |-> records[i].id]

sw_delete_record(c, identifier, rtype, name, content) ==
  Then(IF Truthy(identifier) THEN c
       ELSE sw_list_records(c, rtype, name, content),
       LAMBDA l :
         IF ~Truthy(identifier) /\ l.out = <<>> THEN Return(l, "True")
         ELSE Then(sw_request(l, Req("PATCH", "delete", NoneT, NoneS, NoTtl, <<>>,
                                     sw_changes(identifier, l.out))),
                   LAMBDA c2 : Return(c2, "True")))

\* authenticate: domain_id is the domain in lower case, then GET the records
sw_authenticate(c) ==
  Then(sw_request([c EXCEPT !.did = <<ZONE_DOMAIN>>], GetReq),
       LAMBDA c1 : Return(c1, "None"))

sw_update_record(c, ttlopt, identifier0, rtype, name, content) ==
  Then(IF Truthy(identifier0) THEN c
       ELSE sw_list_records(c, NoneS, name, NoneT),
       LAMBDA l :
         IF ~Truthy(identifier0) /\ l.out = <<>> THEN Return(l, "Exception")
         ELSE IF ~Truthy(identifier0) /\ Len(l.out) > 1 THEN Return(l, "Exception")
         ELSE Then(sw_request(l, Req("PATCH", "set", name, rtype, sw_ttl(ttlopt),
                                     <<content>>,
                                     <<IF Truthy(identifier0) THEN identifier0
                                       ELSE l.out[1].id>>)),
                   LAMBDA c2 : Return(c2, "True")))

\* ------------------------------------------------------------------ the calls

Providers == {"devnomads", "hetzner", "scaleway"}

\* the arguments the calls are made with
RTypes == {"A", "TXT"}

WWW == <<"www">>

MAIL == <<"mail", DOT, ZONE_DOMAIN, DOT>>

NameArgs == {WWW, MAIL}

\* the record sets the calls are made for: "www" has an A and a TXT record set,
\* "mail.example.com." an A record set; with None for an argument left out
Targets == {<<"A", WWW>>, <<"TXT", WWW>>, <<"A", MAIL>>}

Selectors ==
  {s \in (RTypes \cup {NoneS}) \X (NameArgs \cup {NoneT}) : s # <<"TXT", MAIL>>}

Contents == {<<"a">>, <<"a", SPACE, "b">>}

\* the content list_records filters by: a content, one in quotes, or none
Filters == Contents \cup {<<QUOTE, "a", QUOTE>>, NoneT}

\* the ttl option: not set, or set
TtlOptions == {NoTtl, 120}

\* an identifier that no record of any zone has
NoSuchId(p) ==
  CASE p = "devnomads" -> make_identifier("A", <<"gone", DOT, ZONE_DOMAIN, DOT>>, <<"a">>)
    [] p = "hetzner" -> hz_id(<<"gone">>, "A")
    [] p = "scaleway" -> <<"id", "gone">>

Start(p, z, zd, failAt, lenient) ==
  [p |-> p, zone |-> z, zd |-> zd, reqs |-> <<>>, st |-> "run",
   failAt |-> failAt, status |-> 500, lenient |-> lenient, out |-> <<>>,
   did |-> NoneT]

list_records(c, rtype, name, content) ==
  CASE c.p = "devnomads" -> dn_list_records(c, rtype, name, content)
    [] c.p = "hetzner" -> hz_list_records(c, rtype, name, content)
    [] c.p = "scaleway" -> sw_list_records(c, rtype, name, content)

create_record(c, ttlopt, rtype, name, content) ==
  CASE c.p = "devnomads" -> dn_create_record(c, ttlopt, rtype, name, content)
    [] c.p = "hetzner" -> hz_create_record(c, ttlopt, rtype, name, content)
    [] c.p = "scaleway" -> sw_create_record(c, ttlopt, rtype, name, content)

delete_record(c, identifier, rtype, name, content) ==
  CASE c.p = "devnomads" -> dn_delete_record(c, identifier, rtype, name, content)
    [] c.p = "hetzner" -> hz_delete_record(c, identifier, rtype, name, content)
    [] c.p = "scaleway" -> sw_delete_record(c, identifier, rtype, name, content)

update_record(c, ttlopt, identifier, rtype, name, content) ==
  CASE c.p = "devnomads" -> dn_update_record(c, ttlopt, identifier, rtype, name, content)
    [] c.p = "hetzner" -> hz_update_record(c, ttlopt, identifier, rtype, name, content)
    [] c.p = "scaleway" -> sw_update_record(c, ttlopt, identifier, rtype, name, content)

authenticate(c) ==
  CASE c.p = "devnomads" -> dn_authenticate(c)
    [] c.p = "hetzner" -> hz_authenticate(c)
    [] c.p = "scaleway" -> sw_authenticate(c)

\* what list_records returns for the zone as it is, on a new instance
Listed(p, z, rtype, name, content) ==
  list_records(Start(p, z, NoCache, 0, FALSE), rtype, name, content).out

\* the identifiers list_records shows, and one that it does not
Identifiers(p, z) ==
  LET all == Listed(p, z, NoneS, NoneT, NoneT)
  IN {all[i].id : i \in 1..Len(all)} \cup {NoSuchId(p)}

Args(identifier, rtype, name, content) ==
  [identifier |-> identifier, rtype |-> rtype, name |-> name, content |-> content]

\* A call ends: the zone and zone_data are as it left them, last tells the call,
\* its arguments, what it returned or raised (res), the request the server
\* failed (failAt), the requests it sent and the zone it started from (pre);
\* repeated tells that the call before it was the
\* same call and returned True.
Ended(op, ttlopt, args, c) ==
  /\ Size(c.zone) <= MaxRecords
  /\ c.failAt <= Len(c.reqs)
  /\ zone' = c.zone
  /\ zone_data' = c.zd
  /\ last' = [op |-> op, ttl |-> ttlopt, args |-> args,
              res |-> IF Running(c) THEN "list" ELSE c.st,
              failAt |-> c.failAt,
              status |-> IF c.failAt = 0 THEN 200 ELSE c.status,
              reqs |-> c.reqs, out |-> c.out, pre |-> zone]
  /\ repeated' = (last.op = op /\ last.args = args /\ last.res = "True")
  /\ UNCHANGED <<provider, domain_id>>

Idle(z) ==
  [op |-> "init", ttl |-> NoTtl, args |-> Args(NoneT, NoneS, NoneT, NoneT),
   res |-> "None", failAt |-> 0, status |-> 200, reqs |-> <<>>, out |-> <<>>,
   pre |-> z]

\* the instance has made no call yet
Fresh == last.op = "init"

Init ==
  /\ provider \in Providers
  /\ zone = {}
  /\ zone_data = NoCache
  /\ domain_id = NoneT
  /\ last = Idle({})
  /\ repeated = FALSE

\* __init__: a new instance, for the next command
Construct ==
  /\ ~Fresh
  /\ zone_data' = NoCache
  /\ domain_id' = NoneT
  /\ last' = Idle(zone)
  /\ repeated' = FALSE
  /\ UNCHANGED <<provider, zone>>

\* A command constructs an instance and makes a call on it: ListRecords,
\* CreateRecord, DeleteRecord, UpdateRecord.  On the same instance the model
\* follows a create_record by the same call again (Again), and any call by a
\* listing of the whole zone (Relist); every other sequence of calls is made of
\* commands.  The request that the server fails (failAt) is the GET of a
\* list_records or a POST, PATCH or DELETE.

\* the status of a failed answer to the zone lookup of authenticate
FailureStatuses == {401, 404, 500}

\* authenticate ends
Authenticated(failAt, status, c) ==
  /\ zone_data' = c.zd
  /\ domain_id' = c.did
  /\ last' = [Idle(zone) EXCEPT !.op = "authenticate", !.res = c.st,
                               !.failAt = failAt, !.reqs = c.reqs,
                               !.status = IF failAt = 0 THEN 200 ELSE status]
  /\ repeated' = FALSE
  /\ UNCHANGED <<provider, zone>>

\* authenticate(): the zone lookup is answered (failAt 0) or failed with status
Authenticate ==
  /\ Fresh
  /\ \E failAt \in {0, 1}, status \in FailureStatuses :
       Authenticated(failAt, status,
                     authenticate([Start(provider, zone, zone_data, failAt, FALSE)
                                     EXCEPT !.status = status]))

\* whether the server takes a request that names what is not there: hetzner
\* and scaleway may or may not, the PowerDNS API of devnomads has no such case
Lenience(p) == IF p = "devnomads" THEN {FALSE} ELSE BOOLEAN

FailsMutation(c) == c.failAt = 0 \/ IsMutation(c.reqs[c.failAt])

\* a call that changes the zone ends
Changed(op, ttlopt, args, c) == Ended(op, ttlopt, args, c) /\ FailsMutation(c)

\* list_records sends one request: it is answered or failed
ListRecords ==
  /\ Fresh
  /\ \E sel \in Selectors, content \in Filters, failAt \in {0, 1} :
       Ended("list", NoTtl, Args(NoneT, sel[1], sel[2], content),
             list_records(Start(provider, zone, zone_data, failAt, FALSE),
                          sel[1], sel[2], content))

\* create_record sends two requests at most, the lookup and the mutation
CreateRecord ==
  /\ Fresh
  /\ \E ttlopt \in TtlOptions, t \in Targets, content \in Contents,
        failAt \in 0..2, lenient \in Lenience(provider) :
       Changed("create", ttlopt, Args(NoneT, t[1], t[2], content),
               create_record(Start(provider, zone, zone_data, failAt, lenient),
                             ttlopt, t[1], t[2], content))

\* with an identifier, delete_record is called without a type and a name; it
\* sends two requests at most, the lookup and the mutation
DeleteRecord ==
  /\ Fresh
  /\ \E identifier \in Identifiers(provider, zone) \cup {NoneT},
        sel \in Selectors, content \in Contents \cup {NoneT},
        failAt \in 0..2, lenient \in Lenience(provider) :
       /\ identifier # NoneT => sel = <<NoneS, NoneT>>
       /\ Changed("delete", NoTtl, Args(identifier, sel[1], sel[2], content),
                  delete_record(Start(provider, zone, zone_data, failAt, lenient),
                                identifier, sel[1], sel[2], content))

\* update_record is called with the ttl option not set and, with an identifier,
\* with a type and a name or with neither
UpdateRecord ==
  /\ Fresh
  /\ \E identifier \in Identifiers(provider, zone) \cup {NoneT},
        sel \in Selectors, content \in Contents \cup {NoneT},
        failAt \in 0..MaxFailAt, lenient \in Lenience(provider) :
       /\ identifier # NoneT => (sel[1] = NoneS <=> sel[2] = NoneT)
       /\ Changed("update", NoTtl, Args(identifier, sel[1], sel[2], content),
                  update_record(Start(provider, zone, zone_data, failAt, lenient),
                                NoTtl, identifier, sel[1], sel[2], content))

\* the call op with the arguments args
Dispatch(c, op, ttlopt, a) ==
  CASE op = "list" -> list_records(c, a.rtype, a.name, a.content)
    [] op = "create" -> create_record(c, ttlopt, a.rtype, a.name, a.content)
    [] op = "delete" -> delete_record(c, a.identifier, a.rtype, a.name, a.content)
    [] op = "update" ->
         update_record(c, ttlopt, a.identifier, a.rtype, a.name, a.content)

Again ==
  /\ last.op = "create"
  /\ ~repeated
  /\ \E lenient \in Lenience(provider) :
       Ended(last.op, last.ttl, last.args,
             Dispatch(Start(provider, zone, zone_data, 0, lenient),
                      last.op, last.ttl, last.args))

Relist ==
  /\ ~Fresh
  /\ last.op # "list"
  /\ Ended("list", NoTtl, Args(NoneT, NoneS, NoneT, NoneT),
           list_records(Start(provider, zone, zone_data, 0, FALSE),
                        NoneS, NoneT, NoneT))

Next ==
  \/ Construct
  \/ Authenticate
  \/ ListRecords
  \/ CreateRecord
  \/ DeleteRecord
  \/ UpdateRecord
  \/ Again
  \/ Relist

Spec == Init /\ [][Next]_vars

\* ------------------------------------------------------------------ the codecs

\* The identifier and content codecs, applied to texts of up to MaxText
\* tokens: an identifier is made and then parsed, the transport value of a TXT
\* content is written and then read.  last tells the step, its arguments and,
\* in out, its result.

\* the texts of 1 to n tokens of A
Texts(A, n) == UNION {[1..k -> A] : k \in 1..n}

\* contents with "=" and "/" in them
IdContents == Texts({"a", "=", "/"}, MaxText - 1)

\* contents with quotes and spaces in them
TxtContents == Texts({"a", QUOTE, SPACE}, MaxText)

\* the value the server holds for a TXT content the write path of the
\* provider p sent: as sent for devnomads and hetzner, quoted by scaleway's
txt_written(p, content) ==
  CASE p = "devnomads" -> clean_content("TXT", content)
    [] p = "hetzner" -> record_from("TXT", content)
    [] p = "scaleway" -> sw_stored("TXT", content)

\* the content the read path of the provider p shows for a TXT value
txt_read(p, value) ==
  CASE p = "devnomads" -> unclean_content("TXT", value)
    [] p = "hetzner" -> hz_content("TXT", value)
    [] p = "scaleway" -> decode_content("TXT", value)

Step(op, args, out) ==
  /\ last' = [Idle({}) EXCEPT !.op = op, !.args = args, !.out = out]
  /\ UNCHANGED <<provider, zone, zone_data, domain_id, repeated>>

MakeIdentifier ==
  /\ Fresh
  /\ provider = "devnomads"
  /\ \E t \in Targets, content \in IdContents :
       Step("make", Args(NoneT, t[1], fqdn_name(t[2]), content),
            <<make_identifier(t[1], fqdn_name(t[2]), content)>>)

ParseIdentifier ==
  /\ last.op = "make"
  /\ Step("parse", last.args, <<parse_identifier(last.out[1])>>)

WriteTxt ==
  /\ Fresh
  /\ \E content \in TxtContents :
       Step("write", Args(NoneT, "TXT", NoneT, content),
            <<txt_written(provider, content)>>)

ReadTxt ==
  /\ last.op = "write"
  /\ Step("read", last.args, <<txt_read(provider, last.out[1])>>)

CodecNext ==
  \/ MakeIdentifier
  \/ ParseIdentifier
  \/ WriteTxt
  \/ ReadTxt

CodecSpec == Init /\ [][CodecNext]_vars

\* ------------------------------------------------------------------ claims

RRSetProviders == {"devnomads", "hetzner"}

\* the call returned True and the server failed no request of it
Ok == last.res = "True" /\ last.failAt = 0

\* list_records(rtype, name, content) on the zone z
Shown(z, rtype, name, content) == Listed(provider, z, rtype, name, content)

\* the contents list_records(rtype, name) shows for the zone z
ValuesAt(z, rtype, name) ==
  LET l == Shown(z, rtype, name, NoneT) IN {l[i].content : i \in 1..Len(l)}

\* the ttls of the records list_records(rtype, name) shows for the zone z
TtlsAt(z, rtype, name) ==
  LET l == Shown(z, rtype, name, NoneT) IN {l[i].ttl : i \in 1..Len(l)}

\* the records of the zone z that are not of that type and name
Others(z, rtype, name) ==
  LET l == Shown(z, NoneS, NoneT, NoneT)
  IN {l[i] : i \in {k \in 1..Len(l) :
                      ~(l[k].type = rtype /\ l[k].name = full_name(name))}}

\* the last call was op, by type and name, without an identifier
ByTypeName(op) ==
  /\ last.op = op
  /\ last.args.identifier = NoneT
  /\ last.args.rtype # NoneS
  /\ last.args.name # NoneT

\* C1: two successive successful create_record calls with the same type, name
\* and content leave exactly one record that list_records shows for that type,
\* name and content.
C1_CreateIdempotent ==
  (last.op = "create" /\ repeated /\ last.res = "True")
    => Len(Shown(zone, last.args.rtype, last.args.name, last.args.content)) = 1

\* the second of two successful create_record calls has ended, for a TXT
\* content of two words
C1_Witness ==
  /\ last.op = "create" /\ repeated /\ last.res = "True"
  /\ last.args.rtype = "TXT"
  /\ last.args.content = <<"a", SPACE, "b">>
  /\ provider = "hetzner"

\* C2: for devnomads and hetzner, delete_record(rtype, name, content=A) on a
\* record set of exactly the two values A and B leaves it holding only B, and
\* delete_record(rtype, name, content=B) on a record set of only B removes it:
\* list_records(rtype, name) then shows no record.
C2_PartialDelete ==
  (provider \in RRSetProviders /\ ByTypeName("delete") /\ last.failAt = 0
   /\ last.args.content # NoneT)
    => LET a == last.args
           before == Shown(last.pre, a.rtype, a.name, NoneT)
           now == Shown(zone, a.rtype, a.name, NoneT)
       IN /\ (Len(before) = 2 /\ before[1].content # before[2].content
              /\ a.content \in {before[1].content, before[2].content})
               => /\ last.res = "True"
                  /\ Len(now) = 1
                  /\ {now[1].content} =
                       {before[1].content, before[2].content} \ {a.content}
          /\ (Len(before) = 1 /\ before[1].content = a.content)
               => last.res = "True" /\ now = <<>>

\* the last value B of a record set that held A and B has been deleted, and
\* the record set is gone
C2_Witness ==
  /\ provider \in RRSetProviders
  /\ ByTypeName("delete") /\ Ok
  /\ last.args.content # NoneT
  /\ ValuesAt(last.pre, last.args.rtype, last.args.name) = {last.args.content}
  /\ Shown(zone, last.args.rtype, last.args.name, NoneT) = <<>>
  /\ Size(last.pre) = 2

\* C3: for devnomads and hetzner, with no ttl option, a successful create_record
\* of a value that an existing record set does not hold leaves the record set
\* holding what it held and the new value, its ttl unchanged, and every record
\* of another record set as it was.
C3_CreateAppends ==
  (provider \in RRSetProviders /\ last.op = "create" /\ Ok /\ last.ttl = NoTtl
   /\ ValuesAt(last.pre, last.args.rtype, last.args.name) # {}
   /\ last.args.content \notin ValuesAt(last.pre, last.args.rtype, last.args.name))
    => LET a == last.args
       IN /\ ValuesAt(zone, a.rtype, a.name)
               = ValuesAt(last.pre, a.rtype, a.name) \cup {a.content}
          /\ Len(Shown(zone, a.rtype, a.name, NoneT))
               = Len(Shown(last.pre, a.rtype, a.name, NoneT)) + 1
          /\ TtlsAt(zone, a.rtype, a.name) = TtlsAt(last.pre, a.rtype, a.name)
          /\ Others(zone, a.rtype, a.name) = Others(last.pre, a.rtype, a.name)

\* a second value was added to a record set whose ttl is not the default, next
\* to another record set
C3_Witness ==
  /\ provider \in RRSetProviders
  /\ last.op = "create" /\ Ok /\ last.ttl = NoTtl
  /\ ValuesAt(last.pre, last.args.rtype, last.args.name) # {}
  /\ last.args.content \notin ValuesAt(last.pre, last.args.rtype, last.args.name)
  /\ TtlsAt(last.pre, last.args.rtype, last.args.name) = {120}
  /\ Others(last.pre, last.args.rtype, last.args.name) # {}

\* the requests of the last call that change the zone
Mutations == SelectSeq(last.reqs, IsMutation)

\* C4: for devnomads and hetzner, when the ttl option is set and create_record
\* adds a value to an existing record set, the request that changes the zone
\* carries the ttl of the option.
C4_ExplicitTtlSent ==
  (provider \in RRSetProviders /\ last.op = "create" /\ last.ttl # NoTtl
   /\ ValuesAt(last.pre, last.args.rtype, last.args.name) # {}
   /\ last.args.content \notin ValuesAt(last.pre, last.args.rtype, last.args.name))
    => /\ Mutations # <<>>
       /\ \A i \in 1..Len(Mutations) : Mutations[i].ttl = last.ttl

\* the identifiers of the records of the zone z
IdsOf(z) ==
  LET l == Shown(z, NoneS, NoneT, NoneT) IN {l[i].id : i \in 1..Len(l)}

\* the last call, a delete_record, has a selector that is valid and that no
\* record of the zone it started from matches
SelectsNothing ==
  /\ last.op = "delete"
  /\ \/ last.args.identifier # NoneT /\ last.args.identifier \notin IdsOf(last.pre)
     \/ /\ ByTypeName("delete")
        /\ Shown(last.pre, last.args.rtype, last.args.name, last.args.content) = <<>>

\* C5: delete_record with a valid selector that matches no record returns True
\* and leaves the zone as it was.
C5_DeleteNothing ==
  (SelectsNothing /\ last.failAt = 0) => last.res = "True" /\ zone = last.pre

\* C6: delete_record(rtype, name) without content and identifier, on a record
\* set that exists, removes every value of it and leaves every record of
\* another name or type as it was.
C6_DeleteWholeSet ==
  (ByTypeName("delete") /\ last.args.content = NoneT /\ last.failAt = 0
   /\ Shown(last.pre, last.args.rtype, last.args.name, NoneT) # <<>>)
    => /\ last.res = "True"
       /\ Shown(zone, last.args.rtype, last.args.name, NoneT) = <<>>
       /\ Others(zone, last.args.rtype, last.args.name)
            = Others(last.pre, last.args.rtype, last.args.name)

\* a record set of two values was deleted whole, next to another record
C6_Witness ==
  /\ ByTypeName("delete") /\ last.args.content = NoneT /\ Ok
  /\ Len(Shown(last.pre, last.args.rtype, last.args.name, NoneT)) = 2
  /\ Others(zone, last.args.rtype, last.args.name) # {}
  /\ provider = "scaleway"

\* the call raised an error
Raised == last.res \notin {"True", "False", "list", "None"}

\* the records of the zone z that the last call's identifier selects: for
\* hetzner, whose identifier is that of the record set, the one of its content
Selected(z) ==
  LET l == Shown(z, NoneS, NoneT, NoneT)
  IN {l[i] : i \in {k \in 1..Len(l) :
                      /\ l[k].id = last.args.identifier
                      /\ provider = "hetzner" => l[k].content = last.args.content}}

\* C7: for devnomads and hetzner, after update_record(identifier, rtype, name,
\* content) returned True for an identifier that list_records showed,
\* list_records shows a record of the new type, name and content, and no
\* record of the old type, name and content where that differs from the new.
C7_DecomposedUpdate ==
  (provider \in RRSetProviders /\ last.op = "update" /\ Ok
   /\ last.args.identifier # NoneT /\ Selected(last.pre) # {}
   /\ last.args.rtype # NoneS /\ last.args.name # NoneT
   /\ last.args.content # NoneT)
    => /\ Shown(zone, last.args.rtype, last.args.name, last.args.content) # <<>>
       /\ \A old \in Selected(last.pre) :
            <<old.type, old.name, old.content>>
                # <<last.args.rtype, full_name(last.args.name), last.args.content>>
              => Shown(zone, old.type, old.name, old.content) = <<>>

\* C8: update_record(None, rtype, name, content), when list_records(rtype,
\* name) shows exactly one record, returns True, and then list_records(rtype,
\* name) shows exactly one record, of the new content.
C8_UpdateByTypeName ==
  (ByTypeName("update") /\ last.args.content # NoneT /\ last.failAt = 0
   /\ Len(Shown(last.pre, last.args.rtype, last.args.name, NoneT)) = 1)
    => /\ last.res = "True"
       /\ LET now == Shown(zone, last.args.rtype, last.args.name, NoneT)
          IN Len(now) = 1 /\ now[1].content = last.args.content

\* C9: update_record and delete_record without an identifier and without a
\* type or without a name raise an error, send no POST, PATCH or DELETE and
\* leave the zone as it was.
C9_MissingSelector ==
  (last.op \in {"update", "delete"} /\ last.args.identifier = NoneT
   /\ (last.args.rtype = NoneS \/ last.args.name = NoneT))
    => Raised /\ Mutations = <<>> /\ zone = last.pre

\* the last call was update_record(None, rtype, name, content) on a zone where
\* list_records(rtype, name) showed more than one record
Ambiguous ==
  /\ ByTypeName("update")
  /\ last.args.content # NoneT
  /\ last.failAt = 0
  /\ Len(Shown(last.pre, last.args.rtype, last.args.name, NoneT)) > 1

\* C10, as stated: for each provider, update_record without an identifier,
\* when more than one record matches the type and name, raises an error and
\* leaves the zone as it was.
C10_AmbiguousFails == Ambiguous => Raised /\ zone = last.pre

\* C10, amended: in that case devnomads and scaleway raise an error and leave
\* the zone as it was; hetzner returns True and leaves the record set with the
\* new content as its one value, every other record as it was.
C10_AmbiguousUpdate ==
  Ambiguous =>
    IF provider = "hetzner"
    THEN /\ last.res = "True"
         /\ ValuesAt(zone, last.args.rtype, last.args.name) = {last.args.content}
         /\ Len(Shown(zone, last.args.rtype, last.args.name, NoneT)) = 1
         /\ Others(zone, last.args.rtype, last.args.name)
              = Others(last.pre, last.args.rtype, last.args.name)
    ELSE Raised /\ zone = last.pre

\* hetzner replaced two values, neither of them the new content's only one
C10_Witness ==
  /\ Ambiguous
  /\ provider = "hetzner"
  /\ last.args.rtype = "TXT"
  /\ last.args.content = <<"a", SPACE, "b">>
  /\ zone # last.pre

\* the last call was a list_records that returned
Returned == last.op = "list" /\ last.res = "list"

\* C11: every record list_records(rtype, name, content) returns is of the
\* type rtype, of the full name of name and of the content content, for each
\* of the three that is given.
C11_FilterSound ==
  Returned =>
    \A i \in 1..Len(last.out) :
      /\ last.args.rtype # NoneS => last.out[i].type = last.args.rtype
      /\ last.args.name # NoneT => last.out[i].name = full_name(last.args.name)
      /\ last.args.content # NoneT => last.out[i].content = last.args.content

\* C12: on one zone, the records list_records(rtype, name, content) returns
\* are among those it returns with the type, the name or the content left out.
C12_FilterMonotone ==
  \A t \in Targets, content \in Contents :
    LET all == Range(Shown(zone, t[1], t[2], content))
    IN /\ all \subseteq Range(Shown(zone, NoneS, t[2], content))
       /\ all \subseteq Range(Shown(zone, t[1], NoneT, content))
       /\ all \subseteq Range(Shown(zone, t[1], t[2], NoneT))

\* C14, as stated: no two records that one list_records call returns have the
\* same id.
C14_IdsDistinct ==
  Returned =>
    \A i, j \in 1..Len(last.out) : last.out[i].id = last.out[j].id => i = j

\* C14, amended: no two records that one list_records call of devnomads or
\* scaleway returns have the same id; two records that one of hetzner returns
\* have the same id exactly when they are of the same name and type, values of
\* one record set.
C14_IdsOfSets ==
  Returned =>
    \A i, j \in 1..Len(last.out) :
      last.out[i].id = last.out[j].id
        <=> IF provider = "hetzner"
            THEN /\ last.out[i].type = last.out[j].type
                 /\ last.out[i].name = last.out[j].name
            ELSE i = j

\* hetzner listed two values of one record set and a record of another
C14_Witness ==
  /\ Returned
  /\ provider = "hetzner"
  /\ \E i, j \in 1..Len(last.out) : i # j /\ last.out[i].id = last.out[j].id
  /\ \E i, j \in 1..Len(last.out) : last.out[i].id # last.out[j].id

\* C13: for a type and a name without "/" and "=", and any content,
\* _parse_identifier(_make_identifier(type, name, content)) is the type, the
\* name and the content.
C13_IdentifierRoundTrip ==
  last.op = "parse" =>
    /\ last.out[1].ok
    /\ last.out[1].rtype = last.args.rtype
    /\ last.out[1].name = last.args.name
    /\ last.out[1].content = last.args.content

\* C15: the content read from the value written for a TXT content is that
\* content.
C15_TxtRoundTrip == last.op = "read" => last.out[1] = last.args.content

\* the zone lookup of the last call, authenticate, was failed with status
FailedWith(status) ==
  last.op = "authenticate" /\ last.failAt = 1 /\ last.status = status

\* C16: authenticate raises AuthenticationError when the zone lookup is
\* answered 401 and a not-found error when it is answered 404; when it is
\* answered domain_id is set, and when it fails domain_id is not set.
C16_Authenticate ==
  /\ FailedWith(401) => last.res = "AuthenticationError"
  /\ FailedWith(404) => last.res = "LexiconError: no zone"
  /\ (last.op = "authenticate" /\ last.failAt = 0)
       => last.res = "None" /\ domain_id # NoneT
  /\ (last.op = "authenticate" /\ last.failAt # 0) => domain_id = NoneT

\* the last call was a create_record, delete_record or update_record of
\* devnomads that returned True
DnMutated ==
  /\ provider = "devnomads"
  /\ last.op \in {"create", "delete", "update"}
  /\ last.res = "True"

\* C17: in devnomads a create_record, delete_record or update_record that
\* returns True leaves no zone snapshot cached; the list_records that follows
\* it sends the GET again and returns the records of the server's zone; and
\* inside one call a mutation that follows another one is computed from a
\* snapshot fetched after that one.
C17_CacheDiscarded ==
  [][/\ DnMutated' => zone_data' = NoCache
     /\ (DnMutated /\ last'.op = "list")
          => /\ last'.reqs = <<GetReq>>
             /\ last'.out = dn_records(zone', NoneS, NoneT, NoneT)
     /\ DnMutated'
          => \A k \in 2..Len(last'.reqs) :
               (IsMutation(last'.reqs[k])
                /\ \E j \in 1..(k - 1) : IsMutation(last'.reqs[j]))
                 => last'.reqs[k - 1] = GetReq]_vars

\* an update_record of devnomads returned True after its two mutations, each
\* computed from its own snapshot, changed the zone, and holds no snapshot
C17_Witness ==
  /\ DnMutated
  /\ last.op = "update"
  /\ Len(last.reqs) = 4
  /\ zone # last.pre
  /\ zone_data = NoCache

\* the records list_records shows for the zone z
AllShown(z) == Range(Shown(z, NoneS, NoneT, NoneT))

\* the last call was an update_record of devnomads whose delete step was
\* answered and whose create step had a request failed
CreateStepFailed ==
  /\ provider = "devnomads"
  /\ last.op = "update"
  /\ last.failAt > 1
  /\ \E j \in 1..(last.failAt - 1) : IsMutation(last.reqs[j])

\* C18, as stated: when the delete step of the devnomads update_record
\* succeeded and a request of its create step failed, the error is raised, the
\* failed request is the last request sent, and list_records shows neither
\* the old record nor a record of the new type, name and content.
C18_NeitherOldNorNew ==
  CreateStepFailed
    => /\ last.res = "HTTPError"
       /\ Len(last.reqs) = last.failAt
       /\ AllShown(zone) \cap Selected(last.pre) = {}
       /\ Shown(zone, last.args.rtype, last.args.name, last.args.content) = <<>>

\* C18, amended: in that case the error is raised, the failed request is the
\* last request sent, and the zone is the one the call started from without
\* the old record: the old record is gone and no record was created (a record
\* of the new type, name and content is there only if it was there before).
C18_UpdateNotAtomic ==
  CreateStepFailed
    => /\ last.res = "HTTPError"
       /\ Len(last.reqs) = last.failAt
       /\ Len(Mutations) = IF IsMutation(last.reqs[last.failAt]) THEN 2 ELSE 1
       /\ Selected(last.pre) # {}
       /\ AllShown(zone) = AllShown(last.pre) \ Selected(last.pre)

\* the PATCH of the create step failed after the delete step took the old
\* record out of a zone that held other records too
C18_Witness ==
  /\ CreateStepFailed
  /\ last.failAt = 4
  /\ zone # last.pre
  /\ zone # {}
  /\ last.args.content # NoneT
  /\ Shown(zone, last.args.rtype, last.args.name, last.args.content) = <<>>

\* the last call was an update_record that deletes the old record and creates
\* the new one: every update_record of devnomads, _move_record of hetzner
Decomposed ==
  /\ last.op = "update"
  /\ \/ provider = "devnomads"
     \/ /\ provider = "hetzner"
        /\ last.args.identifier # NoneT
        /\ last.args.content # NoneT

\* the mutations of the delete step of that update_record, sent alone to the
\* zone the call started from
DeleteStep ==
  SelectSeq(delete_record(Start(provider, last.pre, NoCache, 0, FALSE),
                          last.args.identifier, NoneS, NoneT,
                          IF provider = "hetzner" THEN last.args.content
                          ELSE NoneT).reqs,
            IsMutation)

\* C19: in a decomposed update (devnomads update_record, hetzner
\* _move_record) the first mutation sent is the one that deletes the old
\* record, and the mutation that creates the new record is sent after it.
C19_DeleteBeforeCreate ==
  (Decomposed /\ Mutations # <<>>)
    => /\ DeleteStep # <<>>
       /\ Mutations[1] = DeleteStep[1]
       /\ Len(Mutations) <= 2

\* the server failed a request of the last call, a list_records,
\* create_record, update_record or delete_record
RequestFailed ==
  /\ last.op \in {"list", "create", "update", "delete"}
  /\ last.failAt # 0

\* C20: for each provider, when a request of list_records, create_record,
\* update_record or delete_record is failed, the call raises the HTTP error
\* and the failed request is the last request it sent: it is not sent again
\* and no other request follows it.
C20_NoRetry ==
  /\ RequestFailed
       => /\ last.res = "HTTPError"
          /\ Len(last.reqs) = last.failAt
  /\ last.res = "HTTPError" => last.reqs # <<>>

\* an update_record had its second mutation failed
C20_Witness ==
  /\ RequestFailed
  /\ last.op = "update"
  /\ Len(Mutations) = 2
  /\ IsMutation(last.reqs[last.failAt])

\* the last call was a create_record, delete_record or update_record of
\* devnomads that had its PATCH failed
DnMutationFailed ==
  /\ provider = "devnomads"
  /\ last.op \in {"create", "delete", "update"}
  /\ last.res = "HTTPError"
  /\ IsMutation(Last(last.reqs))

\* what list_records() returns on the instance as the last call left it: the
\* records of the snapshot it holds, those of the server when it holds none
NextListing ==
  dn_records(IF zone_data.set THEN zone_data.rrsets ELSE zone,
             NoneS, NoneT, NoneT)

\* C21: in devnomads, after a create_record, delete_record or update_record
\* whose PATCH failed, the zone is the one before the call and the
\* list_records that follows on the same instance returns the records of the
\* server's zone, which are the records it returned before the call.
C21_FailureKeepsSnapshot ==
  (DnMutationFailed /\ Len(Mutations) = 1)
    => /\ zone = last.pre
       /\ NextListing = dn_records(zone, NoneS, NoneT, NoneT)

\* the records of the zone z that have the type and name given to the last call
Candidates(z) == Shown(z, last.args.rtype, last.args.name, NoneT)

\* C22: in scaleway, update_record without an identifier names in its request
\* and changes only a record of the given type and name, and records of
\* another type under that name do not count: with one record of the type and
\* name it returns True, with none it raises and changes nothing.
C22_UpdateTargetsType ==
  (provider = "scaleway" /\ ByTypeName("update") /\ last.args.content # NoneT
   /\ last.failAt = 0)
    => /\ \A i \in 1..Len(Mutations) :
            Range(Mutations[i].ids)
              \subseteq {rec.id : rec \in Range(Candidates(last.pre))}
       /\ \A r \in AllShown(last.pre) \ AllShown(zone) :
            r.type = last.args.rtype /\ r.name = full_name(last.args.name)
       /\ Len(Candidates(last.pre)) = 1 => last.res = "True"
       /\ Len(Candidates(last.pre)) = 0 => Raised /\ zone = last.pre

\* the last call was a delete_record(identifier) or an update_record(identifier,
\* content) of hetzner for an identifier that _find_record finds no record of
NoRecordOfId ==
  /\ provider = "hetzner"
  /\ last.args.identifier # NoneT
  /\ last.failAt = 0
  /\ \/ last.op = "delete" /\ last.args.identifier \notin IdsOf(last.pre)
     \/ /\ last.op = "update"
        /\ last.args.content # NoneT
        /\ Selected(last.pre) = {}

\* C23: in hetzner, delete_record(identifier) and update_record(identifier,
\* content) for an identifier that matches no record (for update: none with
\* that content) raise LexiconError and send no mutating request.
C23_UnknownIdRaises ==
  NoRecordOfId => last.res = "LexiconError" /\ Mutations = <<>>

====
